---- MODULE Spec2Model ----
(***************************************************************************)
(* Model of backend/app.py: the in-memory gig store (gigs,                 *)
(* gig_assignments), the websocket connection registry (connections) and   *)
(* the handlers that tie them together.                                    *)
(*                                                                         *)
(* Execution model taken from the code:                                    *)
(*  - assign_gent and ws_endpoint are `async def`: they run on the event   *)
(*    loop and are atomic between two awaits.  Every `await ws.send_json`  *)
(*    is a suspension point at which other handlers may run.               *)
(*  - create_gig and update_gig are plain `def` handlers: FastAPI runs     *)
(*    them in a worker thread.  A worker thread has no running event loop, *)
(*    so asyncio.create_task (line 105) raises RuntimeError there.         *)
(*    update_gig, create_gig, list_gigs and gigs_for_gent are one step     *)
(*    each, except in SpecThreads, where update_gig is one step per        *)
(*    statement.                                                           *)
(*                                                                         *)
(* ev is the observable outcome of the latest step (status, return value,  *)
(* pushes started, deliveries made); it is what a caller or a client sees. *)
(*                                                                         *)
(* Specifications:                                                         *)
(*   Spec          all handlers together                                   *)
(*   SpecStore     the gig store handlers while no websocket client is     *)
(*                 connected, up to MaxGigs gigs                           *)
(*   SpecRealtime  one gig and up to MaxChannels websocket clients: the    *)
(*                 registry, the channel lifecycle and the pushes of       *)
(*                 assign_gent                                             *)
(*   SpecRegistry  add_conn / remove_conn called with arbitrary arguments  *)
(*   SpecChannels  the websocket clients alone, with identities inside and *)
(*                 outside GENTS                                           *)
(*   SpecConcurrent one gig, one websocket client and up to MaxCalls       *)
(*                 assign_gent requests in flight at once                  *)
(*   SpecThreads   one gig and up to MaxCalls update_gig requests running  *)
(*                 statement by statement in worker threads, with list_gigs*)
(*   SpecListed    up to MaxListed gigs, the listings, one websocket client*)
(***************************************************************************)
EXTENDS Integers, Sequences, FiniteSets, TLC

\* ---------------------------------------------------------------- bounds
MaxGigs == 1
MaxChannels == 2
MaxCalls == 2
MaxListed == 2

\* ------------------------------------------------------- values and inputs
None == "None"

GENTS == <<"gent-1", "gent-2", "gent-3", "gent-4", "gent-5">>

Roster == {GENTS[i] : i \in 1..Len(GENTS)}

\* Identities in str order (what sorted() uses); "gent-9" is not in GENTS.
IdentOrder == <<"gent-1", "gent-2", "gent-3", "gent-4", "gent-5", "gent-9">>

\* gent_id values requests carry
GentInputs == {"gent-1", "gent-2", "gent-9"}

\* user_id query parameter of a websocket (None: parameter absent)
UserInputs == {None, "", "gent-1", "gent-2"}

\* user_id values that include an identity outside GENTS
SubscriberInputs == UserInputs \cup {"gent-9"}

\* Optional[T] request fields: <<>> is None, <<v>> is the value v
Opt(S) == {<<>>} \cup {<<v>> : v \in S}

\* uuid4 values, and 0 for an id no gig ever has
GigIds == 1..MaxGigs

GigInputs == 0..MaxGigs

\* a larger pool of uuid4 values, for the listings
ListedGigIds == 1..MaxListed

ListedGigInputs == 0..MaxListed

\* The dates in str order (what the sort of gigs_for_gent uses).
DateOrder == <<"2025-03-01", "2025-03-02">>

Dates == {"2025-03-01", "2025-03-02"}

Fees == {0, 5000}

\* e-mail addresses as character sequences
GoodEmail == <<"c", "@", "e", ".", "c">>

BadEmail == <<"b", "a", "d">>

Emails == {GoodEmail, BadEmail, <<"b", "@", "n">>, <<"@", "m", ".", "c">>}

Channels == 1..MaxChannels

CallIds == 1..MaxCalls

Idle == [pc |-> "idle"]

VARIABLES gigs, gig_assignments, connections, sockets, calls, threads, ev

vars == <<gigs, gig_assignments, connections, sockets, calls, threads, ev>>

\* ---------------------------------------------------------------- helpers
\* _email_rx = ^[^@]+@[^@]+\.[^@]+$ : exactly one "@", at least one character
\* before it, and after it a "." with at least one character on each side.
email_rx_match(s) ==
    \E i \in 1..Len(s) :
        /\ s[i] = "@"
        /\ \A k \in 1..Len(s) : s[k] = "@" => k = i
        /\ i > 1
        /\ \E j \in (i + 2)..(Len(s) - 1) : s[j] = "."

Rank(x) == CHOOSE i \in 1..Len(IdentOrder) : IdentOrder[i] = x

RECURSIVE sorted(_)
sorted(S) ==
    IF S = {} THEN <<>>
    ELSE LET m == CHOOSE x \in S : \A y \in S : Rank(x) <= Rank(y)
         IN <<m>> \o sorted(S \ {m})

\* connections.get(user_id, [])
conns_get(user_id) ==
    IF user_id \in DOMAIN connections THEN connections[user_id] ELSE {}

\* add_conn: connections.setdefault(user_id, set()).add(ws)
add_conn(conns, user_id, ws) ==
    [u \in DOMAIN conns \cup {user_id} |->
        IF u = user_id
        THEN (IF u \in DOMAIN conns THEN conns[u] ELSE {}) \cup {ws}
        ELSE conns[u]]

\* remove_conn that discards ws and keeps the key of an emptied set.
remove_conn_keep_key(conns, user_id, ws) ==
    IF user_id \in DOMAIN conns
    THEN [conns EXCEPT ![user_id] = @ \ {ws}]
    ELSE conns

\* remove_conn: discard ws; delete the key when the set becomes empty
remove_conn(conns, user_id, ws) ==
    IF user_id \in DOMAIN conns
    THEN LET rest == conns[user_id] \ {ws}
         IN IF rest = {}
            THEN [u \in DOMAIN conns \ {user_id} |-> conns[u]]
            ELSE [conns EXCEPT ![user_id] = rest]
    ELSE conns

\* ----------------------------------------------------------- gig store
\* The body of update_gig between ensure_gig and the notification loop
\* (lines 95-102): the record as the statements leave it, and how they end.
patch(g, date, client_email, fee) ==
    LET g1 == IF date # <<>> THEN [g EXCEPT !.date = date[1]] ELSE g
    IN IF client_email # <<>> /\ ~email_rx_match(client_email[1])
       THEN [g |-> g1, status |-> "ValidationError"]
       ELSE LET g2 == IF client_email # <<>>
                      THEN [g1 EXCEPT !.client_email = client_email[1]]
                      ELSE g1
                g3 == IF fee # <<>> THEN [g2 EXCEPT !.fee = fee[1]] ELSE g2
            IN [g |-> g3, status |-> "ok"]

\* The notification loop of update_gig (lines 104-105), run in a worker
\* thread: the first asyncio.create_task raises RuntimeError (no running
\* event loop) before any task exists; with no assignee the loop is empty.
\* Result: the identities a push was started for, and how the loop ends.
notify_assigned(assignees) ==
    IF assignees = {}
    THEN [pushes |-> <<>>, status |-> "ok"]
    ELSE [pushes |-> <<>>, status |-> "RuntimeError"]

\* gig_assignments.get(gig_id, set())
assignments_get(gig_id) ==
    IF gig_id \in DOMAIN gig_assignments THEN gig_assignments[gig_id] ELSE {}

\* create_gig that stores the record and no assignment set.
create_gig_no_set(date, client_email, fee) ==
    /\ UNCHANGED <<gig_assignments, connections, sockets, calls, threads>>
    /\ IF ~email_rx_match(client_email)
       THEN /\ UNCHANGED gigs
            /\ ev' = [op |-> "create_gig", status |-> "ValidationError"]
       ELSE \E gid \in GigIds \ DOMAIN gigs :
            LET g == [id |-> gid, date |-> date, client_email |-> client_email, fee |-> fee]
            IN /\ gigs' = [k \in DOMAIN gigs \cup {gid} |-> IF k = gid THEN g ELSE gigs[k]]
               /\ ev' = [op |-> "create_gig", status |-> "ok", ret |-> g]

\* create_gig (lines 67-78) with uuid4 drawing from ids.
create_gig_in(ids, date, client_email, fee) ==
    /\ UNCHANGED <<connections, sockets, calls, threads>>
    /\ IF ~email_rx_match(client_email)
       THEN /\ UNCHANGED <<gigs, gig_assignments>>
            /\ ev' = [op |-> "create_gig", status |-> "ValidationError"]
       ELSE \E gid \in ids \ DOMAIN gigs :
            LET g == [id |-> gid, date |-> date, client_email |-> client_email, fee |-> fee]
            IN /\ gigs' = [k \in DOMAIN gigs \cup {gid} |-> IF k = gid THEN g ELSE gigs[k]]
               /\ gig_assignments' =
                     [k \in DOMAIN gig_assignments \cup {gid} |->
                         IF k = gid THEN {} ELSE gig_assignments[k]]
               /\ ev' = [op |-> "create_gig", status |-> "ok", ret |-> g]

create_gig(date, client_email, fee) == create_gig_in(GigIds, date, client_email, fee)

update_gig(gig_id, date, client_email, fee) ==
    /\ UNCHANGED <<gig_assignments, connections, sockets, calls, threads>>
    /\ IF gig_id \notin DOMAIN gigs
       THEN /\ UNCHANGED gigs
            /\ ev' = [op |-> "update_gig", gig |-> gig_id, status |-> "NotFoundError",
                      pushes |-> <<>>]
       ELSE LET p == patch(gigs[gig_id], date, client_email, fee)
                n == notify_assigned(assignments_get(gig_id))
            IN /\ gigs' = [gigs EXCEPT ![gig_id] = p.g]
               /\ IF p.status # "ok"
                  THEN ev' = [op |-> "update_gig", gig |-> gig_id, status |-> p.status,
                              pushes |-> <<>>]
                  ELSE IF n.status # "ok"
                  THEN ev' = [op |-> "update_gig", gig |-> gig_id, status |-> n.status,
                              pushes |-> n.pushes]
                  ELSE ev' = [op |-> "update_gig", gig |-> gig_id, status |-> "ok",
                              pushes |-> n.pushes, ret |-> p.g]

\* update_gig statement by statement.  It is a plain `def` handler, which
\* FastAPI runs in a worker thread: another thread can run between any two
\* of its statements.  threads[t] is the position of worker thread t.
\*
\* ensure_gig (line 94): the thread fails, or holds the record g.
update_enter(t, gig_id, date, client_email, fee) ==
    /\ threads[t] = Idle
    /\ \A k \in CallIds : k < t => threads[k] # Idle
    /\ UNCHANGED <<gigs, gig_assignments, connections, sockets, calls>>
    /\ IF gig_id \notin DOMAIN gigs
       THEN /\ UNCHANGED threads
            /\ ev' = [op |-> "update_gig", gig |-> gig_id, status |-> "NotFoundError",
                      pushes |-> <<>>]
       ELSE /\ threads' = [threads EXCEPT ![t] =
                              [pc |-> "date", gig |-> gig_id, date |-> date,
                               client_email |-> client_email, fee |-> fee,
                               wrote |-> FALSE]]
            /\ ev' = [op |-> "update_enter"]

\* The next statement of the thread: lines 95-96, 97-100, 101-102, and
\* the notification loop with the return (lines 104-106).  wrote records
\* that a statement of the thread has changed a stored field.
update_step(t) ==
    /\ threads[t] # Idle
    /\ UNCHANGED <<gig_assignments, connections, sockets, calls>>
    /\ LET th == threads[t]
           g == gigs[th.gig]
       IN CASE th.pc = "date" ->
                 /\ gigs' = IF th.date # <<>>
                            THEN [gigs EXCEPT ![th.gig].date = th.date[1]]
                            ELSE gigs
                 /\ threads' = [threads EXCEPT ![t].pc = "email",
                                   ![t].wrote = @ \/ (th.date # <<>> /\ g.date # th.date[1])]
                 /\ ev' = [op |-> "update_step"]
            [] th.pc = "email" ->
                 IF th.client_email # <<>> /\ ~email_rx_match(th.client_email[1])
                 THEN /\ UNCHANGED gigs
                      /\ threads' = [threads EXCEPT ![t] = Idle]
                      /\ ev' = [op |-> "update_gig", gig |-> th.gig,
                                status |-> "ValidationError", pushes |-> <<>>]
                 ELSE /\ gigs' = IF th.client_email # <<>>
                                 THEN [gigs EXCEPT ![th.gig].client_email = th.client_email[1]]
                                 ELSE gigs
                      /\ threads' = [threads EXCEPT ![t].pc = "fee",
                                        ![t].wrote = @ \/ (th.client_email # <<>>
                                                           /\ g.client_email # th.client_email[1])]
                      /\ ev' = [op |-> "update_step"]
            [] th.pc = "fee" ->
                 /\ gigs' = IF th.fee # <<>>
                            THEN [gigs EXCEPT ![th.gig].fee = th.fee[1]]
                            ELSE gigs
                 /\ threads' = [threads EXCEPT ![t].pc = "notify",
                                   ![t].wrote = @ \/ (th.fee # <<>> /\ g.fee # th.fee[1])]
                 /\ ev' = [op |-> "update_step"]
            [] th.pc = "notify" ->
                 LET n == notify_assigned(assignments_get(th.gig))
                 IN /\ UNCHANGED gigs
                    /\ threads' = [threads EXCEPT ![t] = Idle]
                    /\ ev' = IF n.status # "ok"
                             THEN [op |-> "update_gig", gig |-> th.gig,
                                   status |-> n.status, pushes |-> n.pushes]
                             ELSE [op |-> "update_gig", gig |-> th.gig, status |-> "ok",
                                   pushes |-> n.pushes, ret |-> g]

\* list_gigs that writes the gents into the stored record.
list_gigs_in_place ==
    /\ UNCHANGED <<gig_assignments, connections, sockets, calls, threads>>
    /\ gigs' = [gid \in DOMAIN gigs |->
                   [f \in DOMAIN gigs[gid] \cup {"gents"} |->
                       IF f = "gents" THEN sorted(assignments_get(gid)) ELSE gigs[gid][f]]]
    /\ ev' = [op |-> "list_gigs",
              ret |-> [gid \in DOMAIN gigs |->
                          [g |-> gigs[gid], gents |-> sorted(assignments_get(gid))]]]

\* list_gigs (lines 80-85): one entry per gig, the copy `{**g, "gents": ...}`
\* of a record being one step of the interpreter.  The result is keyed by
\* gig id here; the order of the entries is the dict's insertion order.
list_gigs ==
    /\ UNCHANGED <<gigs, gig_assignments, connections, sockets, calls, threads>>
    /\ ev' = [op |-> "list_gigs",
              ret |-> [gid \in DOMAIN gigs |->
                          [g |-> gigs[gid], gents |-> sorted(assignments_get(gid))]]]

DateRank(d) == CHOOSE i \in 1..Len(DateOrder) : DateOrder[i] = d

\* A sort key without the date.
gig_key_le_by_id(a, b) == a.id <= b.id

\* (x.get("date", ""), x["id"]) compared as tuples of str (line 141); the
\* order of the integer ids stands for the str order of the uuids.
gig_key_le(a, b) ==
    \/ DateRank(a.date) < DateRank(b.date)
    \/ a.date = b.date /\ a.id <= b.id

\* result.sort(key=...): the records in ascending order of their keys.
RECURSIVE sort_gigs(_)
sort_gigs(S) ==
    IF S = {} THEN <<>>
    ELSE LET m == CHOOSE x \in S : \A y \in S : gig_key_le(x, y)
         IN <<m>> \o sort_gigs(S \ {m})

\* gigs_for_gent (lines 132-142).
gigs_for_gent(gent_id) ==
    /\ UNCHANGED <<gigs, gig_assignments, connections, sockets, calls, threads>>
    /\ IF gent_id \notin Roster
       THEN ev' = [op |-> "gigs_for_gent", gent |-> gent_id,
                   status |-> "UnknownWorkerError"]
       ELSE ev' = [op |-> "gigs_for_gent", gent |-> gent_id, status |-> "ok",
                   ret |-> sort_gigs({gigs[gid] : gid \in
                              {k \in DOMAIN gigs : gent_id \in assignments_get(k)}})]

\* ------------------------------------------------------- assign_gent
\* The checks without the roster test.
assign_check_no_roster(gig_id, gent_id) ==
    IF gig_id \notin DOMAIN gigs THEN "NotFoundError" ELSE "ok"

\* The checks with ensure_gig first.
assign_check_gig_first(gig_id, gent_id) ==
    IF gig_id \notin DOMAIN gigs THEN "NotFoundError"
    ELSE IF gent_id \notin Roster THEN "UnknownWorkerError"
    ELSE "ok"

\* The checks of assign_gent before it touches the store (lines 114-116).
assign_check(gig_id, gent_id) ==
    IF gent_id \notin Roster THEN "UnknownWorkerError"
    ELSE IF gig_id \notin DOMAIN gigs THEN "NotFoundError"
    ELSE "ok"

\* A discard that empties the set.
assign_apply_clear(s, gent_id, assigned) ==
    IF assigned THEN s \cup {gent_id} ELSE {}

\* A write that rebuilds the set from the request alone.
assign_apply_from_empty(s, gent_id, assigned) ==
    IF assigned THEN {gent_id} ELSE {}

\* The assignment set after lines 119-122.
assign_apply(s, gent_id, assigned) ==
    IF assigned THEN s \cup {gent_id} ELSE s \ {gent_id}

\* A change of membership that notifies every assignee of the gig.
assign_pushes_all(s, gent_id, assigned) ==
    IF (gent_id \in s) # assigned
    THEN sorted(assign_apply(s, gent_id, assigned) \cup {gent_id})
    ELSE <<>>

\* A push for the gent whether or not its membership changed.
assign_pushes_always(s, gent_id, assigned) == <<gent_id>>

\* The identities assign_gent calls send_to_user for (lines 118, 123-125).
assign_pushes(s, gent_id, assigned) ==
    IF (gent_id \in s) # assigned THEN <<gent_id>> ELSE <<>>

\* What assign_gent returns (line 126), read from the live set s at the
\* time of the return.  was is the assignee sequence the call found.
assign_return(call) ==
    [op |-> "assign_gent", gig |-> call.gig, gent |-> call.gent,
     assigned |-> call.assigned, status |-> "ok", pushes |-> call.pushes,
     log |-> call.log, was |-> call.was,
     ret |-> [id |-> call.gig, gents |-> sorted(gig_assignments'[call.gig])]]

\* A failed write that ends the loop.
after_send_abort(todo, ok) == IF ok THEN todo ELSE {}

\* The channels send_to_user still has to write to after one write ended
\* (lines 24-27): the exception of a failed write is swallowed.
after_send(todo, ok) == todo

\* assign_gent from its entry to its first suspension (the first
\* `await ws.send_json` inside send_to_user) or, with nothing to await,
\* to its return.
assign_gent(c, gig_id, gent_id, assigned) ==
    /\ calls[c] = Idle
    /\ \A k \in CallIds : k < c => calls[k] # Idle
    /\ UNCHANGED <<gigs, connections, sockets, threads>>
    /\ IF assign_check(gig_id, gent_id) # "ok"
       THEN /\ UNCHANGED <<gig_assignments, calls>>
            /\ ev' = [op |-> "assign_gent", gig |-> gig_id, gent |-> gent_id,
                      assigned |-> assigned, status |-> assign_check(gig_id, gent_id),
                      pushes |-> <<>>]
       ELSE LET s == assignments_get(gig_id)
                pushes == assign_pushes(s, gent_id, assigned)
                \* send_to_user: list(connections.get(user_id, []))
                snap == UNION {conns_get(pushes[i]) : i \in 1..Len(pushes)}
                call == [pc |-> "send", gig |-> gig_id, gent |-> gent_id,
                         assigned |-> assigned, pushes |-> pushes,
                         snap |-> snap, log |-> <<>>, was |-> sorted(s)]
            IN /\ gig_assignments' =
                     [k \in DOMAIN gig_assignments \cup {gig_id} |->
                         IF k = gig_id THEN assign_apply(s, gent_id, assigned)
                         ELSE gig_assignments[k]]
               /\ IF snap = {}
                  THEN /\ UNCHANGED calls
                       /\ ev' = assign_return(call)
                  ELSE \E first \in snap :
                       /\ calls' = [calls EXCEPT ![c] =
                                       call @@ [cur |-> first, todo |-> snap \ {first}]]
                       /\ ev' = [op |-> "assign_suspend", gig |-> gig_id,
                                 gent |-> gent_id, assigned |-> assigned]

\* One iteration of the loop of send_to_user (lines 23-27) inside a
\* suspended assign_gent: the awaited ws.send_json either completes or
\* raises.  A socket whose handler has ended cannot be written to.  After
\* the last iteration assign_gent returns.
send_to_user_step(c, ok) ==
    /\ calls[c] # Idle
    /\ ok => sockets[calls[c].cur].state = "Open"
    /\ UNCHANGED <<gigs, gig_assignments, connections, sockets, threads>>
    /\ LET call == calls[c]
           logged == [call EXCEPT !.log = Append(@, <<call.cur, ok>>)]
           todo == after_send(call.todo, ok)
       IN IF todo = {}
          THEN /\ calls' = [calls EXCEPT ![c] = Idle]
               /\ ev' = assign_return(logged)
          ELSE \E next \in todo :
               /\ calls' = [calls EXCEPT ![c] =
                               [logged EXCEPT !.cur = next, !.todo = todo \ {next}]]
               /\ ev' = [op |-> "send"]

\* ------------------------------------------------------- ws_endpoint
\* A test that lets the empty string through.
has_identity_not_none(user_id) == user_id # None

\* `if not user_id` (line 32): None and the empty string are no identity.
has_identity(user_id) == ~(user_id = None \/ user_id = "")

\* ws_endpoint up to its first receive (lines 31-37).
ws_connect(ch, user_id) ==
    /\ sockets[ch].state = "Connecting"
    /\ UNCHANGED <<gigs, gig_assignments, calls, threads>>
    /\ IF ~has_identity(user_id)
       THEN /\ sockets' = [sockets EXCEPT ![ch].state = "Rejected"]
            /\ UNCHANGED connections
            /\ ev' = [op |-> "ws_reject", user |-> user_id]
       ELSE /\ sockets' = [sockets EXCEPT ![ch].state = "Open", ![ch].user = user_id]
            /\ connections' = add_conn(connections, user_id, ch)
            /\ ev' = [op |-> "ws_open", user |-> user_id]

\* How ws.receive_text() can end (line 41):
\* "text" - a text frame arrives: it is ignored and the loop goes on;
\* "disconnect" - WebSocketDisconnect is raised;
\* "error" - another exception is raised (a binary frame makes
\*   receive_text raise KeyError).
ReceiveOutcomes == {"text", "disconnect", "error"}

\* The except clause of ws_endpoint (line 42) catches WebSocketDisconnect
\* only; any other exception leaves the handler without remove_conn.
unregisters(outcome) == outcome = "disconnect"

\* One turn of the receive loop of ws_endpoint (lines 38-44).
ws_receive(ch, outcome) ==
    /\ sockets[ch].state = "Open"
    /\ UNCHANGED <<gigs, gig_assignments, calls, threads>>
    /\ ev' = [op |-> "ws_receive", outcome |-> outcome]
    /\ IF outcome = "text"
       THEN UNCHANGED <<sockets, connections>>
       ELSE /\ sockets' = [sockets EXCEPT
                              ![ch].state = "Closed",
                              ![ch].unregs = IF unregisters(outcome) THEN @ + 1 ELSE @]
            /\ connections' = IF unregisters(outcome)
                              THEN remove_conn(connections, sockets[ch].user, ch)
                              ELSE connections

\* ------------------------------------------------------------------- Init
Init ==
    /\ gigs = <<>>
    /\ gig_assignments = <<>>
    /\ connections = <<>>
    /\ sockets = [ch \in Channels |-> [state |-> "Connecting", user |-> None, unregs |-> 0]]
    /\ calls = [c \in CallIds |-> Idle]
    /\ threads = [t \in CallIds |-> Idle]
    /\ ev = [op |-> "init"]

\* --------------------------------------------------------------- requests
CreateGig == \E date \in Dates, client_email \in Emails, fee \in Fees :
    create_gig(date, client_email, fee)

UpdateGig == \E gig_id \in GigInputs, date \in Opt(Dates),
               client_email \in Opt({GoodEmail, BadEmail}), fee \in Opt(Fees) :
    update_gig(gig_id, date, client_email, fee)

AssignGent == \E c \in CallIds, gig_id \in GigInputs, gent_id \in GentInputs,
                assigned \in BOOLEAN :
    assign_gent(c, gig_id, gent_id, assigned)

SendToUser == \E c \in CallIds, ok \in BOOLEAN : send_to_user_step(c, ok)

WsConnect == \E ch \in Channels, user_id \in UserInputs : ws_connect(ch, user_id)

WsReceive == \E ch \in Channels, outcome \in ReceiveOutcomes : ws_receive(ch, outcome)

GigsForGent == \E gent_id \in GentInputs : gigs_for_gent(gent_id)

ListGigs == list_gigs

Next ==
    \/ CreateGig
    \/ UpdateGig
    \/ AssignGent
    \/ SendToUser
    \/ WsConnect
    \/ WsReceive
    \/ ListGigs
    \/ GigsForGent

Spec == Init /\ [][Next]_vars

\* The gig store while no websocket client is connected.
NextStore ==
    \/ CreateGig
    \/ UpdateGig
    \/ AssignGent

SpecStore == Init /\ [][NextStore]_vars

\* One gig, created with fixed field values, and the websocket clients.
CreateFirstGig ==
    /\ gigs = <<>>
    /\ create_gig("2025-03-01", GoodEmail, 5000)

\* A new assign_gent request arrives only while no other one is in flight.
AssignGentAlone ==
    /\ \A c \in CallIds : calls[c] = Idle
    /\ AssignGent

NextRealtime ==
    \/ CreateFirstGig
    \/ AssignGentAlone
    \/ SendToUser
    \/ WsConnect
    \/ WsReceive

SpecRealtime == Init /\ [][NextRealtime]_vars

\* The registry functions called directly with arbitrary arguments.
Register == \E user_id \in GentInputs, ws \in Channels :
    /\ connections' = add_conn(connections, user_id, ws)
    /\ ev' = [op |-> "add_conn", user |-> user_id, ws |-> ws]
    /\ UNCHANGED <<gigs, gig_assignments, sockets, calls, threads>>

Unregister == \E user_id \in GentInputs, ws \in Channels :
    /\ connections' = remove_conn(connections, user_id, ws)
    /\ ev' = [op |-> "remove_conn", user |-> user_id, ws |-> ws,
              held |-> ws \in conns_get(user_id)]
    /\ UNCHANGED <<gigs, gig_assignments, sockets, calls, threads>>

NextRegistry ==
    \/ Register
    \/ Unregister

SpecRegistry == Init /\ [][NextRegistry]_vars

\* The websocket clients alone, with identities inside and outside GENTS.
WsConnectAny == \E ch \in Channels, user_id \in SubscriberInputs : ws_connect(ch, user_id)

NextChannels ==
    \/ WsConnectAny
    \/ WsReceive

SpecChannels == Init /\ [][NextChannels]_vars

\* One gig, one websocket client, and up to MaxCalls assign_gent requests
\* in flight at once: a request arrives while others are suspended in
\* send_to_user.
WsConnectFirst == \E user_id \in UserInputs : ws_connect(1, user_id)

NextConcurrent ==
    \/ CreateFirstGig
    \/ AssignGent
    \/ SendToUser
    \/ WsConnectFirst
    \/ WsReceive

SpecConcurrent == Init /\ [][NextConcurrent]_vars

\* One gig and up to MaxCalls update_gig requests running in worker
\* threads at once, with list_gigs readers; the patches carry a date, a
\* fee, both or neither.
UpdateEnter == \E t \in CallIds, gig_id \in GigInputs, date \in Opt(Dates), fee \in Opt(Fees) :
    update_enter(t, gig_id, date, <<>>, fee)

UpdateStep == \E t \in CallIds : update_step(t)

NextThreads ==
    \/ CreateFirstGig
    \/ UpdateEnter
    \/ UpdateStep
    \/ ListGigs

SpecThreads == Init /\ [][NextThreads]_vars

\* Up to MaxListed gigs that differ in their dates, the listings, and one
\* websocket client of gent-1.
CreateListed == \E date \in Dates : create_gig_in(ListedGigIds, date, GoodEmail, 5000)

UpdateListed == \E gig_id \in ListedGigInputs, date \in Opt(Dates) :
    update_gig(gig_id, date, <<>>, <<>>)

AssignListed == \E gig_id \in ListedGigInputs, gent_id \in GentInputs, assigned \in BOOLEAN :
    /\ \A c \in CallIds : calls[c] = Idle
    /\ assign_gent(1, gig_id, gent_id, assigned)

WsConnectGent == ws_connect(1, "gent-1")

NextListed ==
    \/ CreateListed
    \/ UpdateListed
    \/ AssignListed
    \/ SendToUser
    \/ WsConnectGent
    \/ ListGigs
    \/ GigsForGent

SpecListed == Init /\ [][NextListed]_vars

\* ================================================================ claims
\* A step in which an assign_gent request arrives (and possibly returns).
AssignArrives ==
    /\ ev'.op \in {"assign_gent", "assign_suspend"}
    /\ \A c \in CallIds : calls[c] = Idle

\* A step in which a suspended assign_gent returns.
Resumed(c) == calls[c] # Idle /\ calls'[c] = Idle

\* How often channel ws occurs in a delivery log.
Writes(log, ws) == Cardinality({i \in 1..Len(log) : log[i][1] = ws})

\* The pushes of seq are exactly one for each identity of S.
OnePushEach(seq, S) ==
    /\ Len(seq) = Cardinality(S)
    /\ \A w \in S : \E i \in 1..Len(seq) : seq[i] = w

\* C1: an assign_gent call that changes the membership of its gent in the
\* gig's assignment set calls send_to_user exactly once, for that gent: the
\* channels it is going to write to are the gent's channels, and every
\* channel it has written to when it returns belongs to that gent and to no
\* other identity.
C1_NotifiesOnlyWorker ==
    [][/\ \A g \in DOMAIN gigs :
            gig_assignments'[g] # gig_assignments[g] =>
                /\ AssignArrives
                /\ ev'.gig = g
                /\ (gig_assignments'[g] \ gig_assignments[g])
                     \cup (gig_assignments[g] \ gig_assignments'[g]) = {ev'.gent}
                /\ ev'.op = "assign_gent" =>
                      ev'.pushes = <<ev'.gent>> /\ ev'.log = <<>>
                /\ ev'.op = "assign_suspend" =>
                      \E c \in CallIds :
                          /\ calls'[c] # Idle
                          /\ calls'[c].pushes = <<ev'.gent>>
                          /\ calls'[c].snap = conns_get(ev'.gent)
       /\ \A c \in CallIds :
            Resumed(c) =>
                /\ ev'.op = "assign_gent"
                /\ ev'.pushes = calls[c].pushes
                /\ \A i \in 1..Len(ev'.log) :
                      /\ sockets[ev'.log[i][1]].user = ev'.gent
                      /\ ev'.log[i][1] \in calls[c].snap
      ]_vars

\* C1 witness: a call that changed membership has returned after writing to
\* a channel of its gent, while another assignee of the same gig has an open
\* channel of its own.
C1_Witness ==
    /\ ev.op = "assign_gent"
    /\ ev.status = "ok"
    /\ ev.pushes = <<ev.gent>>
    /\ \E i \in 1..Len(ev.log) : ev.log[i][2]
    /\ \E other \in gig_assignments[ev.gig] \ {ev.gent} :
          \E ch \in conns_get(other) : sockets[ch].state = "Open"

\* C2: every update_gig of an existing gig with a valid patch succeeds and
\* starts exactly one push for each identity assigned to the gig (none when
\* nobody is assigned).
C2_UpdateNotifiesAssignees ==
    (ev.op = "update_gig" /\ ev.status \notin {"NotFoundError", "ValidationError"}) =>
        /\ ev.status = "ok"
        /\ OnePushEach(ev.pushes, gig_assignments[ev.gig])

\* C3: an assign_gent call whose desired state already matches the gent's
\* membership succeeds, leaves every assignment set unchanged, starts no
\* push and returns the sorted current set; and a call that directly
\* follows the return of a call with the same arguments returns the same
\* sequence and starts no push.
C3_Idempotent ==
    [][AssignArrives =>
        /\ ( /\ assign_check(ev'.gig, ev'.gent) = "ok"
             /\ (ev'.gent \in gig_assignments[ev'.gig]) = ev'.assigned )
           => /\ ev'.op = "assign_gent"
              /\ ev'.status = "ok"
              /\ gig_assignments' = gig_assignments
              /\ ev'.pushes = <<>>
              /\ ev'.log = <<>>
              /\ ev'.ret.gents = sorted(gig_assignments[ev'.gig])
        /\ ( /\ ev.op = "assign_gent"
             /\ ev.status = "ok"
             /\ ev'.gig = ev.gig /\ ev'.gent = ev.gent /\ ev'.assigned = ev.assigned )
           => /\ ev'.op = "assign_gent"
              /\ ev'.status = "ok"
              /\ ev'.ret = ev.ret
              /\ ev'.pushes = <<>>
      ]_vars

\* C3 witness: a call for a gent that has a live channel and is already in
\* the desired state (assigned, next to another assignee) has returned
\* without a push.
C3_Witness ==
    /\ ev.op = "assign_gent"
    /\ ev.status = "ok"
    /\ ev.assigned
    /\ ev.pushes = <<>>
    /\ Len(ev.ret.gents) = 2
    /\ conns_get(ev.gent) # {}

\* C4: an update_gig that fails with ValidationError leaves every stored
\* gig record as it was.
C4_UpdateAllOrNothing ==
    [][(ev'.op = "update_gig" /\ ev'.status = "ValidationError") => gigs' = gigs]_vars

\* C5: a step that leaves the record of a gig with at least one assignee
\* different from before starts, within the same operation, one push for
\* each of the gig's assignees.
C5_ChangeNotifiesAssignees ==
    [][\A g \in DOMAIN gigs :
          (gigs'[g] # gigs[g] /\ gig_assignments[g] # {}) =>
              OnePushEach(ev'.pushes, gig_assignments[g])]_vars

\* C6: every identity in an assignment set is in the roster.
C6_AssigneesInRoster ==
    \A g \in DOMAIN gig_assignments : gig_assignments[g] \subseteq Roster

\* C6 witness: an attempt to assign an identity outside the roster to an
\* existing gig that has assignees has just been answered.
C6_Witness ==
    /\ ev.op = "assign_gent"
    /\ ev.assigned
    /\ ev.gent \notin Roster
    /\ ev.gig \in DOMAIN gigs
    /\ gig_assignments[ev.gig] # {}

\* C7 as claimed: assign_gent fails with NotFoundError for every gig id that
\* is not in the store, whatever the gent id is.
C7_NotFoundWhateverWorker ==
    (ev.op = "assign_gent" /\ ev.gig \notin DOMAIN gigs) => ev.status = "NotFoundError"

\* C7 amended: assign_gent fails with UnknownWorkerError for every gent id
\* outside the roster, whether or not the gig exists, and with NotFoundError
\* for every gig id that is not in the store when the gent id is in the
\* roster; a failing call leaves all gig records and all assignment sets
\* unchanged and starts no push.
C7_AssignErrors ==
    [][AssignArrives =>
        /\ ev'.gent \notin Roster => ev'.status = "UnknownWorkerError"
        /\ (ev'.gent \in Roster /\ ev'.gig \notin DOMAIN gigs) =>
              ev'.status = "NotFoundError"
        /\ (ev'.gent \notin Roster \/ ev'.gig \notin DOMAIN gigs) =>
              /\ ev'.op = "assign_gent"
              /\ ev'.status # "ok"
              /\ gigs' = gigs
              /\ gig_assignments' = gig_assignments
              /\ ev'.pushes = <<>>
      ]_vars

\* C7 witness: a call for an unknown gig and an identity outside the roster
\* has failed while the store holds a gig with an assignee.
C7_Witness ==
    /\ ev.op = "assign_gent"
    /\ ev.gig \notin DOMAIN gigs
    /\ ev.gent \notin Roster
    /\ ev.status = "UnknownWorkerError"
    /\ \E g \in DOMAIN gigs : gig_assignments[g] # {}

\* C8: a channel whose handler has ended (Closed) has been unregistered
\* exactly once and is in no identity's set.
C8_ClosedIsUnregistered ==
    \A ch \in Channels :
        sockets[ch].state = "Closed" =>
            /\ sockets[ch].unregs = 1
            /\ \A u \in DOMAIN connections : ch \notin connections[u]

\* C9: a push never fails its caller.  A call that had to write to channels
\* returns ok with exactly one write, delivered or failed, for every channel
\* that was in the identity's set when the push began, and none for any
\* other channel; a call with nothing to write to returns ok at once with
\* the registry untouched.
C9_PushSwallowsFailures ==
    [][/\ \A c \in CallIds :
            Resumed(c) =>
                /\ ev'.op = "assign_gent"
                /\ ev'.status = "ok"
                /\ \A ws \in Channels :
                      Writes(ev'.log, ws) = IF ws \in calls[c].snap THEN 1 ELSE 0
       /\ (AssignArrives /\ ev'.op = "assign_gent" /\ ev'.status = "ok") =>
             /\ ev'.pushes # <<>> => conns_get(ev'.gent) = {}
             /\ ev'.log = <<>>
             /\ connections' = connections
       /\ (AssignArrives /\ ev'.op = "assign_suspend") =>
             \E c \in CallIds :
                 /\ calls'[c] # Idle
                 /\ calls'[c].snap = conns_get(ev'.gent)
                 /\ calls'[c].snap # {}
      ]_vars

\* C9 witness: a push whose first write failed has gone on to deliver to
\* another channel, and the call has returned.
C9_Witness ==
    /\ ev.op = "assign_gent"
    /\ ev.status = "ok"
    /\ Len(ev.log) >= 2
    /\ ~ev.log[1][2]
    /\ ev.log[2][2]

\* C10: no identity of the registry maps to an empty channel set.
C10_NoEmptySets ==
    \A u \in DOMAIN connections : connections[u] # {}

\* C10 witness: remove_conn has taken the last channel of an identity while
\* another identity stays registered.
C10_Witness ==
    /\ ev.op = "remove_conn"
    /\ ev.held
    /\ ev.user \notin DOMAIN connections
    /\ DOMAIN connections # {}

\* A step in which an assign_gent request arrives, whatever else is in flight.
AssignBegins ==
    /\ ev'.op \in {"assign_gent", "assign_suspend"}
    /\ \A c \in CallIds : ~Resumed(c)

\* C11: every identity that has an entry in the connection registry is in
\* the roster.
C11_SubscribersInRoster ==
    DOMAIN connections \subseteq Roster

\* C12: a connection attempt is rejected exactly when it supplies no
\* identity (none, or the empty string); the rejected channel goes from
\* Connecting to Rejected, stays there, and the registry is unchanged by the
\* attempt; every channel in the registry was accepted with an identity.
C12_NoIdentityRejected ==
    [][/\ ev'.op \in {"ws_reject", "ws_open"} =>
            /\ (ev'.user \in {None, ""}) <=> (ev'.op = "ws_reject")
            /\ ev'.op = "ws_reject" =>
                  /\ connections' = connections
                  /\ \E ch \in Channels :
                        /\ sockets[ch].state = "Connecting"
                        /\ sockets'[ch].state = "Rejected"
                        /\ \A other \in Channels \ {ch} : sockets'[other] = sockets[other]
       /\ \A ch \in Channels :
            /\ sockets[ch].state = "Rejected" => sockets'[ch].state = "Rejected"
            /\ sockets'[ch].state = "Rejected" =>
                  \A u \in DOMAIN connections' : ch \notin connections'[u]
            /\ \A u \in DOMAIN connections' :
                  ch \in connections'[u] =>
                      /\ sockets'[ch].state \in {"Open", "Closed"}
                      /\ sockets'[ch].user = u
                      /\ u \notin {None, ""}
      ]_vars

\* C12 witness: an attempt with an empty identity has been rejected while
\* another channel is registered.
C12_Witness ==
    /\ ev.op = "ws_reject"
    /\ ev.user = ""
    /\ \E ch \in Channels : sockets[ch].state = "Rejected"
    /\ DOMAIN connections # {}

\* C13: concurrent assign_gent calls on one gig lose no update: every call
\* that passes its checks applies its add or discard, in the step in which
\* it arrives, to the set as all earlier calls left it, and no later step of
\* a suspended call (a send, the return) writes the set; the final set is
\* the one the calls produce one after another in their order of arrival.
C13_NoLostUpdate ==
    [][\A g \in DOMAIN gig_assignments' :
          LET old == assignments_get(g)
              new == gig_assignments'[g]
          IN IF /\ AssignBegins
                /\ ev'.gig = g
                /\ ev'.op = "assign_gent" => ev'.status = "ok"
             THEN new = IF ev'.assigned THEN old \cup {ev'.gent} ELSE old \ {ev'.gent}
             ELSE new = old
      ]_vars

\* C13 witness: two calls on the same gig are in flight at once, and the
\* set holds an identity that neither of them added.
C13_Witness ==
    /\ calls[1] # Idle
    /\ calls[2] # Idle
    /\ calls[1].gig = calls[2].gig
    /\ \E w \in gig_assignments[calls[1].gig] : w # calls[1].gent /\ w # calls[2].gent

\* Thread t has written one field of its patch and has yet to write another
\* one, whose stored value still differs from the patch.
PartlyApplied(t) ==
    /\ threads[t] # Idle
    /\ threads[t].wrote
    /\ threads[t].pc \in {"email", "fee"}
    /\ threads[t].fee # <<>>
    /\ gigs[threads[t].gig].fee # threads[t].fee[1]

\* No list_gigs reads a record while a patch is partly applied to it.
C14_NoPartialRead ==
    ev.op = "list_gigs" => \A t \in CallIds : ~PartlyApplied(t)

\* Two update_gig calls that both set date and fee of one gig, and have both
\* made all their writes, leave the date and fee of one of them.
C14_SerialOutcome ==
    \A t1 \in CallIds : \A t2 \in CallIds \ {t1} :
        (/\ threads[t1] # Idle /\ threads[t1].pc = "notify"
         /\ threads[t2] # Idle /\ threads[t2].pc = "notify"
         /\ threads[t1].gig = threads[t2].gig
         /\ threads[t1].date # <<>> /\ threads[t1].fee # <<>>
         /\ threads[t2].date # <<>> /\ threads[t2].fee # <<>>)
        => LET g == gigs[threads[t1].gig]
           IN \E t \in {t1, t2} : g.date = threads[t].date[1] /\ g.fee = threads[t].fee[1]

\* C14: update_gig is atomic with respect to concurrent operations on the
\* same gig: two concurrent update_gig calls leave the record that one of
\* the two serial orders leaves, and no concurrent list_gigs observes a
\* record with only part of one patch applied.
C14_UpdateAtomic ==
    /\ C14_SerialOutcome
    /\ C14_NoPartialRead

\* C15: assign_gent is fire-and-forget: once a call has applied its
\* mutation it returns without waiting for a delivery, so its return never
\* hangs on a channel write that may never complete.  In states: no call
\* that has applied its mutation is suspended in send_to_user, where only
\* the end of the awaited write lets it go on to its return.
C15_ReturnsWithoutWaiting ==
    \A c \in CallIds :
        calls[c] # Idle =>
            ~(/\ calls[c].pc = "send"
              /\ (calls[c].gent \in gig_assignments[calls[c].gig]) = calls[c].assigned)

\* C19: what a successful assign_gent returns reflects its own mutation: the
\* returned sequence holds the gent when the call assigned it, and does not
\* hold it when the call unassigned it, whatever ran while the call was
\* suspended.
C19_ReturnReflectsCall ==
    (ev.op = "assign_gent" /\ ev.status = "ok") =>
        ((\E i \in 1..Len(ev.ret.gents) : ev.ret.gents[i] = ev.gent) <=> ev.assigned)

\* C17: for an existing gig g and a gent w of the roster that is not
\* assigned to g, assign_gent(g, w, true) directly followed by
\* assign_gent(g, w, false) leaves the assignee sequence of g as it was
\* before the first call.
C17_AssignUnassignRoundTrip ==
    [][(/\ ev.op = "assign_gent"
        /\ ev.status = "ok"
        /\ ev.assigned
        /\ \A i \in 1..Len(ev.was) : ev.was[i] # ev.gent
        /\ AssignArrives
        /\ ev'.op = "assign_gent"
        /\ ev'.gig = ev.gig
        /\ ev'.gent = ev.gent
        /\ ~ev'.assigned)
       => /\ ev'.status = "ok"
          /\ ev'.ret.gents = ev.was
          /\ sorted(gig_assignments'[ev.gig]) = ev.was
      ]_vars

\* C17 witness: an unassign has removed a gent it found assigned and has
\* left another assignee in place.
C17_Witness ==
    /\ ev.op = "assign_gent"
    /\ ev.status = "ok"
    /\ ~ev.assigned
    /\ \E i \in 1..Len(ev.was) : ev.was[i] = ev.gent
    /\ ev.ret.gents # <<>>
    /\ Len(ev.was) = Len(ev.ret.gents) + 1

\* C18: the gig ids that have an assignment set are the gig ids of the gig
\* table; an accepted create_gig installs one new record together with an
\* empty set, a rejected one installs neither, and no step removes either.
C18_SetPerGig ==
    [][/\ DOMAIN gig_assignments = DOMAIN gigs
       /\ DOMAIN gig_assignments' = DOMAIN gigs'
       /\ DOMAIN gigs \subseteq DOMAIN gigs'
       /\ IF ev'.op = "create_gig" /\ ev'.status = "ok"
          THEN /\ DOMAIN gigs' = DOMAIN gigs \cup {ev'.ret.id}
               /\ ev'.ret.id \notin DOMAIN gigs
               /\ gig_assignments'[ev'.ret.id] = {}
          ELSE DOMAIN gigs' = DOMAIN gigs
      ]_vars

\* C18 witness: a create_gig has been rejected while a gig with assignees
\* exists.
C18_Witness ==
    /\ ev.op = "create_gig"
    /\ ev.status = "ValidationError"
    /\ \E g \in DOMAIN gigs : gig_assignments[g] # {}

\* C16: gigs_for_gent(w) for a gent w of the roster returns exactly the
\* records of the gigs whose assignment set contains w, each once, in
\* ascending order of (date as a plain string, id); for a gent outside the
\* roster it fails with UnknownWorkerError.
C16_ListForWorker ==
    ev.op = "gigs_for_gent" =>
        IF ev.gent \notin Roster
        THEN ev.status = "UnknownWorkerError"
        ELSE /\ ev.status = "ok"
             /\ {ev.ret[i] : i \in 1..Len(ev.ret)} =
                   {gigs[g] : g \in {k \in DOMAIN gigs : ev.gent \in gig_assignments[k]}}
             /\ \A i \in 1..Len(ev.ret) : \A j \in 1..Len(ev.ret) :
                   i < j =>
                      \/ DateRank(ev.ret[i].date) < DateRank(ev.ret[j].date)
                      \/ /\ ev.ret[i].date = ev.ret[j].date
                         /\ ev.ret[i].id < ev.ret[j].id

\* C16 witness: a listing of two gigs in which the date puts the gig with
\* the larger id first.
C16_Witness ==
    /\ ev.op = "gigs_for_gent"
    /\ ev.status = "ok"
    /\ Len(ev.ret) = 2
    /\ ev.ret[1].id > ev.ret[2].id
    /\ ev.ret[1].date # ev.ret[2].date

\* C20: update_gig leaves every assignment set, every other gig's record
\* and the gig's id unchanged; assign_gent leaves every gig record, every
\* other gig's assignment set and the membership of every other gent in the
\* gig unchanged; neither changes the connection registry; list_gigs and
\* gigs_for_gent change nothing.
C20_Frame ==
    [][/\ ev'.op = "update_gig" =>
            /\ gig_assignments' = gig_assignments
            /\ connections' = connections
            /\ DOMAIN gigs' = DOMAIN gigs
            /\ \A g \in DOMAIN gigs :
                  /\ g # ev'.gig => gigs'[g] = gigs[g]
                  /\ gigs'[g].id = gigs[g].id
       /\ ev'.op \in {"assign_gent", "assign_suspend", "send"} =>
            /\ gigs' = gigs
            /\ connections' = connections
            /\ DOMAIN gig_assignments' = DOMAIN gig_assignments
            /\ IF AssignArrives
               THEN \A g \in DOMAIN gig_assignments : \A w \in GentInputs :
                       (g # ev'.gig \/ w # ev'.gent) =>
                           ((w \in gig_assignments'[g]) <=> (w \in gig_assignments[g]))
               ELSE gig_assignments' = gig_assignments
       /\ ev'.op \in {"list_gigs", "gigs_for_gent"} =>
            UNCHANGED <<gigs, gig_assignments, connections, sockets, calls, threads>>
      ]_vars

\* C20 witness: with two gigs, a registered client and an assignee on the
\* other gig, list_gigs has run after a gig was given another date than its
\* neighbour.
C20_Witness ==
    /\ ev.op = "list_gigs"
    /\ connections # <<>>
    /\ \E g \in DOMAIN gigs : \E h \in DOMAIN gigs :
          /\ g # h
          /\ gigs[g].date # gigs[h].date
          /\ gig_assignments[g] # {}
          /\ gig_assignments[h] = {}

====
